---- MODULE Spec2Model ----
(***************************************************************************)
(* Library-API: the DatabaseManager of app/database.py over its PostgreSQL *)
(* schema (authors, genres, books, book_genres, bookings).                 *)
(*                                                                         *)
(* The connection runs with autocommit = True (connect), so every          *)
(* cursor.execute is a transaction of its own.  A handler that runs alone  *)
(* is one action (its statements in order, each one's effect kept when a   *)
(* later one raises); handlers that run concurrently interleave at the     *)
(* statement.                                                              *)
(*                                                                         *)
(* Instants are integers counted in ticks, Res ticks to the second:        *)
(* datetime.now() and the arguments of add_booking carry a sub-second      *)
(* part, stored booking instants are whole seconds (multiples of Res).     *)
(***************************************************************************)
EXTENDS Integers, Naturals, FiniteSets, Sequences, Bags, TLC

VARIABLES
    authors,       \* table authors: rows [id, first_name, last_name, avatar]
    genres,        \* table genres: rows [id, name], name UNIQUE
    books,         \* table books: rows [id, title, price, pages, author_id], title UNIQUE
    book_genres,   \* table book_genres: rows [book_id, genre_id], the pair is the key
    bookings,      \* table bookings: a bag of rows [user_id, book_id, start_date, end_date]
    seq,           \* the SERIAL sequences: next id of authors, genres, books
    now,           \* the wall clock read by datetime.now()
    ret,           \* what the last finished call reported
    calls          \* the calls in flight, one per request handler

vars == <<authors, genres, books, book_genres, bookings, seq, now, ret, calls>>

catalog == <<authors, genres, books, book_genres, seq>>

(***************************************************************************)
(* Bounds of the model.                                                    *)
(***************************************************************************)
\* the clock runs over 0..MaxTime (ticks)
MaxTime == 5
\* the instants passed to add_booking lie in 0..MaxInstant (ticks)
MaxInstant == 4
\* add_booking is not called once the ledger holds this many rows
MaxBookings == 2
\* add_book is not called once the books sequence has passed this id
MaxBookSeq == 3

\* ticks per second: replace(microsecond=0) drops what is below a second
Res == 2

Users == {1, 2}
Procs == {1, 2}
Instants == 0..MaxInstant

\* the book ids a caller may name: the two stocked books and one id that is no book
StockedBookIds == {1, 2}
BookIds == {1, 2, 3}

\* an optional argument: <<>> is None, <<x>> is x
Nothing == <<>>
Some(x) == <<x>>
\* the str '' as a first or last name
NoName == ""
\* genre names are words over the letters 1, 2, ...; the empty word is the str ''
NoGenre == <<>>
\* avatar: None, or one of the blobs 1, 2, ...
NoAvatar == 0
\* a call that returns None and prints nothing to tell by
NoOut == "None"

(***************************************************************************)
(* Pure helpers.                                                           *)
(***************************************************************************)
\* datetime.replace(microsecond=0)
Trunc(t) == t - (t % Res)

\* the rows S of a bag, each with its multiplicity
Restrict(B, S) == [r \in S |-> B[r]]

\* the bookings.book_id REFERENCES books(id) constraint, for one book id
BookExists(bks, id) == \E b \in bks : b.id = id

(***************************************************************************)
(* _checking_booking_date: DELETE FROM bookings WHERE end_date < now.      *)
(***************************************************************************)
Expired_le(r, t) == r.end_date <= t

Expired(r, t) == r.end_date < t

SweptLedger(bk, t) == Restrict(bk, {r \in DOMAIN bk : ~Expired(r, t)})

\* the rowcount of the DELETE
SweptCount(bk, t) == BagCardinality(bk) - BagCardinality(SweptLedger(bk, t))

(***************************************************************************)
(* _is_available_bookings: the sweep, then                                 *)
(*   SELECT COUNT( * ) FROM bookings WHERE book_id = %s                    *)
(*     AND (start_date < %s AND %s < end_date)                             *)
(* and count == 0.  It is given the ledger and the clock and answers for   *)
(* the ledger the sweep leaves.                                            *)
(***************************************************************************)
ConflictCount_overlap(bk, book_id, start_date) ==
    BagCardinality(Restrict(bk, {r \in DOMAIN bk :
        /\ r.book_id = book_id
        /\ r.start_date <= start_date
        /\ start_date < r.end_date}))

ConflictCount(bk, book_id, start_date) ==
    BagCardinality(Restrict(bk, {r \in DOMAIN bk :
        /\ r.book_id = book_id
        /\ r.start_date < start_date
        /\ start_date < r.end_date}))

_is_available_bookings_nosweep(bk, t, book_id, start_date) ==
    ConflictCount(bk, book_id, start_date) = 0

_is_available_bookings(bk, t, book_id, start_date) ==
    ConflictCount(SweptLedger(bk, t), book_id, start_date) = 0

\* history: the rows the sweep of this check deleted that the SELECT would have counted
StaleConflicts(bk, t, book_id, start_date) ==
    ConflictCount(bk, book_id, start_date)
        - ConflictCount(SweptLedger(bk, t), book_id, start_date)

(***************************************************************************)
(* The state after create_tables, and the state after the migration of     *)
(* __main__: two books of one author and one genre added, no booking yet.  *)
(***************************************************************************)
StockedAuthors == {[id |-> 1, first_name |-> "A", last_name |-> "Smith", avatar |-> NoAvatar]}
StockedGenres == {[id |-> 1, name |-> <<1>>]}
StockedBooks ==
    {[id |-> i, title |-> i, price |-> 10, pages |-> 100, author_id |-> 1] : i \in StockedBookIds}
StockedBookGenres == {[book_id |-> i, genre_id |-> 1] : i \in StockedBookIds}

NoCall == [pc |-> "idle"]
NoRet == [op |-> "none", out |-> NoOut, swept |-> 0]

Init ==
    /\ authors = {}
    /\ genres = {}
    /\ books = {}
    /\ book_genres = {}
    /\ seq = [authors |-> 1, genres |-> 1, books |-> 1]
    /\ bookings = EmptyBag
    /\ now = 0
    /\ ret = NoRet
    /\ calls = [p \in Procs |-> NoCall]

InitStocked ==
    /\ authors = StockedAuthors
    /\ genres = StockedGenres
    /\ books = StockedBooks
    /\ book_genres = StockedBookGenres
    /\ seq = [authors |-> 2, genres |-> 2, books |-> 3]
    /\ bookings = EmptyBag
    /\ now = 0
    /\ ret = NoRet
    /\ calls = [p \in Procs |-> NoCall]
(***************************************************************************)
(* add_booking, run alone.                                                 *)
(***************************************************************************)
BookingRow(user_id, book_id, start_date, end_date) ==
    [user_id |-> user_id, book_id |-> book_id,
     start_date |-> Trunc(start_date), end_date |-> Trunc(end_date)]

\* the INSERT INTO bookings: the row is stored unless book_id is no book
\* (the foreign key raises, add_booking prints the error)
InsertBooking_nofk(bk, bks, row) == bk (+) SetToBag({row})

InsertBooking(bk, bks, row) ==
    IF BookExists(bks, row.book_id) THEN bk (+) SetToBag({row}) ELSE bk

AddBookingOut(bk, bks, t, row) ==
    IF ~_is_available_bookings(bk, t, row.book_id, row.start_date) THEN "conflict"
    ELSE IF BookExists(bks, row.book_id) THEN "booked"
    ELSE "error"

AddBookingLedger(bk, bks, t, row) ==
    IF _is_available_bookings(bk, t, row.book_id, row.start_date)
    THEN InsertBooking(SweptLedger(bk, t), bks, row)
    ELSE SweptLedger(bk, t)

add_booking(user_id, book_id, start_date, end_date) ==
    LET row == BookingRow(user_id, book_id, start_date, end_date) IN
    /\ BagCardinality(bookings) < MaxBookings
    /\ bookings' = AddBookingLedger(bookings, books, now, row)
    /\ ret' = [op |-> "add_booking",
               out |-> AddBookingOut(bookings, books, now, row),
               swept |-> SweptCount(bookings, now),
               stale |-> StaleConflicts(bookings, now, row.book_id, row.start_date),
               row |-> row]
    /\ UNCHANGED <<catalog, now, calls>>

(***************************************************************************)
(* cancel_booking: DELETE FROM bookings WHERE book_id = %s AND user_id =   *)
(* %s, and "Бронирование успешно отменено" printed whatever was deleted.   *)
(***************************************************************************)
CancelLedger_book(bk, user_id, booking_id) ==
    Restrict(bk, {r \in DOMAIN bk : r.book_id # booking_id})

CancelLedger_swapped(bk, user_id, booking_id) ==
    Restrict(bk, {r \in DOMAIN bk : ~(r.book_id = user_id /\ r.user_id = booking_id)})

CancelLedger(bk, user_id, booking_id) ==
    Restrict(bk, {r \in DOMAIN bk : ~(r.book_id = booking_id /\ r.user_id = user_id)})

CancelReport(rowcount) == "cancelled"

\* history: the whole-second starts that the check of add_booking finds taken
\* on the book at instant t, and taken by bookings of user_id alone
HeldOnlyBy(bk, t, user_id, booking_id) ==
    LET active == {r \in DOMAIN bk : ~Expired(r, t) /\ r.book_id = booking_id}
        holders(s) == {r \in active : r.start_date < s /\ s < r.end_date}
    IN {s \in {Trunc(i) : i \in Instants} :
           holders(s) # {} /\ \A r \in holders(s) : r.user_id = user_id}

cancel_booking(user_id, booking_id) ==
    LET rowcount == BagCardinality(bookings) -
                    BagCardinality(CancelLedger(bookings, user_id, booking_id)) IN
    /\ bookings' = CancelLedger(bookings, user_id, booking_id)
    /\ ret' = [op |-> "cancel_booking", out |-> CancelReport(rowcount),
               swept |-> 0, rowcount |-> rowcount,
               user_id |-> user_id, book_id |-> booking_id,
               freed |-> HeldOnlyBy(bookings, now, user_id, booking_id)]
    /\ UNCHANGED <<catalog, now, calls>>

(***************************************************************************)
(* get_active_bookings: the sweep, then                                    *)
(*   SELECT book_id, start_date, end_date FROM bookings                    *)
(*     JOIN books ON ... JOIN authors ON ... WHERE end_date >= now         *)
(* with the clock read a second time, t2 >= t.                             *)
(***************************************************************************)
ActiveRows(bk, bks, auths, t2) ==
    Restrict(bk, {r \in DOMAIN bk :
        /\ \E b \in bks : b.id = r.book_id /\ \E a \in auths : a.id = b.author_id
        /\ r.end_date >= t2})

\* the tuples fetchall returns, each as often as its rows
Listing(B) ==
    LET tup(r) == <<r.book_id, r.start_date, r.end_date>>
        tups == {tup(r) : r \in DOMAIN B}
        count(x) == BagCardinality(Restrict(B, {r \in DOMAIN B : tup(r) = x}))
    IN [x \in tups |-> count(x)]

get_active_bookings ==
    \E t2 \in {now, now + 1} :
        /\ t2 <= MaxTime
        /\ bookings' = SweptLedger(bookings, now)
        /\ now' = t2
        /\ ret' = [op |-> "get_active_bookings",
                   out |-> Listing(ActiveRows(SweptLedger(bookings, now), books, authors, t2)),
                   swept |-> SweptCount(bookings, now)]
        /\ UNCHANGED <<catalog, calls>>

(***************************************************************************)
(* remove_book: DELETE FROM book_genres WHERE book_id = %s; DELETE FROM    *)
(* books WHERE id = %s, sent as one query string and so one transaction:   *)
(* when a booking still references the book the second DELETE raises and   *)
(* the first is undone with it.                                            *)
(***************************************************************************)
Referenced(bk, book_id) == \E r \in DOMAIN bk : r.book_id = book_id

RemoveOut_cascade(bks, bk, book_id) ==
    IF BookExists(bks, book_id) THEN "removed" ELSE "not_found"

RemoveOut(bks, bk, book_id) ==
    IF Referenced(bk, book_id) THEN "error"
    ELSE IF BookExists(bks, book_id) THEN "removed"
    ELSE "not_found"

remove_book(book_id) ==
    LET out == RemoveOut(books, bookings, book_id) IN
    /\ books' = IF out = "removed" THEN {b \in books : b.id # book_id} ELSE books
    /\ book_genres' = IF out = "removed"
                      THEN {j \in book_genres : j.book_id # book_id}
                      ELSE book_genres
    /\ ret' = [op |-> "remove_book", out |-> out, swept |-> 0, book_id |-> book_id]
    /\ UNCHANGED <<authors, genres, seq, bookings, now, calls>>

(***************************************************************************)
(* get_books_filtered: the sweep, then the join of books, book_genres,     *)
(* genres and authors under the filters that are given; the dict keeps one *)
(* entry per book id.                                                      *)
(***************************************************************************)
Projected(b, a) ==
    [id |-> b.id, title |-> b.title, price |-> b.price, pages |-> b.pages,
     first_name |-> a.first_name, last_name |-> a.last_name]

\* "if author_first_name:", "if genre_name:": a str filter is applied when it
\* is neither None nor the empty str
Given(arg, empty) == arg # Nothing /\ arg[1] # empty

PriceInRange_nomax(price, min_price, max_price) ==
    min_price # Nothing => price >= min_price[1]

\* "if min_price is not None ...": AND books.price >= %s, likewise max_price
PriceInRange(price, min_price, max_price) ==
    /\ min_price # Nothing => price >= min_price[1]
    /\ max_price # Nothing => price <= max_price[1]

FilteredBooks_outer(bks, bg, gs, auths, min_price, max_price, genre_name, first_name, last_name) ==
    {Projected(x[1], x[2]) : x \in {y \in bks \X auths : y[2].id = y[1].author_id}}

FilteredBooks(bks, bg, gs, auths, min_price, max_price, genre_name, first_name, last_name) ==
    {Projected(b, a) : <<b, a>> \in
        {x \in bks \X auths :
            /\ x[2].id = x[1].author_id
            /\ PriceInRange(x[1].price, min_price, max_price)
            /\ Given(first_name, NoName) => x[2].first_name = first_name[1]
            /\ Given(last_name, NoName) => x[2].last_name = last_name[1]
            /\ \E j \in bg, g \in gs :
                   /\ j.book_id = x[1].id
                   /\ g.id = j.genre_id
                   /\ Given(genre_name, NoGenre) => g.name = genre_name[1]}}

AllBooks(bks, bg, gs, auths) ==
    FilteredBooks(bks, bg, gs, auths, Nothing, Nothing, Nothing, Nothing, Nothing)

get_books_filtered(min_price, max_price, genre_name, author_first_name, author_last_name) ==
    /\ bookings' = SweptLedger(bookings, now)
    /\ ret' = [op |-> "get_books_filtered",
               out |-> FilteredBooks(books, book_genres, genres, authors, min_price,
                                     max_price, genre_name, author_first_name,
                                     author_last_name),
               swept |-> SweptCount(bookings, now),
               args |-> <<min_price, max_price, genre_name, author_first_name,
                          author_last_name>>]
    /\ UNCHANGED <<catalog, now, calls>>

(***************************************************************************)
(* add_book, run alone: the author looked up or inserted, each genre of    *)
(* the list looked up or inserted, the book inserted, one book_genres row  *)
(* inserted per entry of the list.  Each statement is committed as it      *)
(* runs; the first one that raises ends the call and undoes nothing.       *)
(***************************************************************************)
AuthorIds_none(auths, first_name, last_name) == {}

\* SELECT id FROM authors WHERE first_name = %s AND last_name = %s
AuthorIds(auths, first_name, last_name) ==
    {a.id : a \in {x \in auths : x.first_name = first_name /\ x.last_name = last_name}}

\* SELECT id FROM genres WHERE name = %s
GenreIds(gs, name) == {g.id : g \in {x \in gs : x.name = name}}

\* the genre loop: [genres, next, ids] after the names are resolved in order
RECURSIVE ResolveGenres(_, _, _)
ResolveGenres(gs, next, names) ==
    IF names = <<>> THEN [genres |-> gs, next |-> next, ids |-> <<>>]
    ELSE LET found == GenreIds(gs, Head(names))
             id == IF found = {} THEN next ELSE CHOOSE i \in found : TRUE
             gs1 == IF found = {} THEN gs \cup {[id |-> next, name |-> Head(names)]} ELSE gs
             n1 == IF found = {} THEN next + 1 ELSE next
             rest == ResolveGenres(gs1, n1, Tail(names))
         IN [rest EXCEPT !.ids = <<id>> \o rest.ids]

\* the book_genres loop: [book_genres, ok], stopping at the first pair that is stored already
RECURSIVE InsertJoins(_, _, _)
InsertJoins(bg, book_id, genre_ids) ==
    IF genre_ids = <<>> THEN [book_genres |-> bg, ok |-> TRUE]
    ELSE LET row == [book_id |-> book_id, genre_id |-> Head(genre_ids)] IN
         IF row \in bg THEN [book_genres |-> bg, ok |-> FALSE]
         ELSE InsertJoins(bg \cup {row}, book_id, Tail(genre_ids))

TitleTaken_never(bks, title) == FALSE

TitleTaken(bks, title) == \E b \in bks : b.title = title

add_book(book) ==
    LET found == AuthorIds(authors, book.first_name, book.last_name)
        rg == ResolveGenres(genres, seq.genres, book.genres)
        taken == TitleTaken(books, book.title)
        book_id == seq.books
    IN
    /\ seq.books <= MaxBookSeq
    /\ \E author_id \in (IF found = {} THEN {seq.authors} ELSE found) :
        LET joined == IF taken THEN [book_genres |-> book_genres, ok |-> FALSE]
                      ELSE InsertJoins(book_genres, book_id, rg.ids)
        IN
        /\ authors' = IF found = {}
                      THEN authors \cup {[id |-> author_id, first_name |-> book.first_name,
                                          last_name |-> book.last_name, avatar |-> book.avatar]}
                      ELSE authors
        /\ genres' = rg.genres
        /\ books' = IF taken THEN books
                    ELSE books \cup {[id |-> book_id, title |-> book.title,
                                      price |-> book.price, pages |-> book.pages,
                                      author_id |-> author_id]}
        /\ book_genres' = joined.book_genres
        /\ seq' = [authors |-> IF found = {} THEN seq.authors + 1 ELSE seq.authors,
                   genres |-> rg.next,
                   books |-> seq.books + 1]
        /\ ret' = [op |-> "add_book", out |-> IF joined.ok THEN "added" ELSE "error",
                   swept |-> 0, book_id |-> book_id, title |-> book.title,
                   author_id |-> author_id, avatar |-> book.avatar]
    /\ UNCHANGED <<bookings, now, calls>>

(***************************************************************************)
(* get_genres_by_book_id:                                                  *)
(*   SELECT g.name FROM genres g JOIN book_genres bg ON g.id = bg.genre_id *)
(*     WHERE bg.book_id = %s ORDER BY g.name                               *)
(* Names are words over ordered letters and ORDER BY compares them letter  *)
(* by letter, a proper prefix first.                                       *)
(***************************************************************************)
RECURSIVE NameLess(_, _)
NameLess(a, b) ==
    IF b = <<>> THEN FALSE
    ELSE IF a = <<>> THEN TRUE
    ELSE \/ Head(a) < Head(b)
         \/ Head(a) = Head(b) /\ NameLess(Tail(a), Tail(b))

OrderedBefore_id(g, h) == g.id < h.id

\* ORDER BY g.name
OrderedBefore(g, h) == NameLess(g.name, h.name)

\* the genres rows the JOIN keeps for the book
GenreRowsOfBook(bg, gs, book_id) ==
    {g \in gs : [book_id |-> book_id, genre_id |-> g.id] \in bg}

GenresOfBook(bg, gs, book_id) ==
    LET rows == GenreRowsOfBook(bg, gs, book_id)
        n == Cardinality(rows)
        sorted == CHOOSE f \in [1..n -> rows] :
                     \A i \in 1..n, j \in 1..n : i < j => OrderedBefore(f[i], f[j])
    IN [i \in 1..n |-> sorted[i].name]

get_genres_by_book_id(book_id) ==
    /\ ret' = [op |-> "get_genres_by_book_id",
               out |-> GenresOfBook(book_genres, genres, book_id),
               swept |-> 0, book_id |-> book_id]
    /\ UNCHANGED <<catalog, bookings, now, calls>>

(***************************************************************************)
(* The clock.                                                              *)
(***************************************************************************)
Tick ==
    /\ now < MaxTime
    /\ now' = now + 1
    /\ UNCHANGED <<catalog, bookings, ret, calls>>

_checking_booking_date ==
    /\ bookings' = SweptLedger(bookings, now)
    /\ ret' = [op |-> "_checking_booking_date", out |-> NoOut,
               swept |-> SweptCount(bookings, now)]
    /\ UNCHANGED <<catalog, now, calls>>

(***************************************************************************)
(* The ledger of the stocked books, one call at a time.                    *)
(***************************************************************************)
Next ==
    \/ \E u \in Users, b \in StockedBookIds, s \in Instants, e \in Instants :
           add_booking(u, b, s, e)
    \/ \E u \in Users, b \in StockedBookIds : cancel_booking(u, b)
    \/ get_active_bookings
    \/ _checking_booking_date
    \/ Tick

Spec == InitStocked /\ [][Next]_vars

(***************************************************************************)
(* Books taken off the stocked catalog while they are booked, one call at  *)
(* a time, the clock standing still.                                       *)
(***************************************************************************)
NextShelf ==
    \/ \E u \in Users, b \in BookIds, s \in Instants, e \in Instants : add_booking(u, b, s, e)
    \/ \E u \in Users, b \in BookIds : cancel_booking(u, b)
    \/ \E b \in BookIds : remove_book(b)
    \/ get_books_filtered(Nothing, Nothing, Nothing, Nothing, Nothing)

ShelfSpec == InitStocked /\ [][NextShelf]_vars

(***************************************************************************)
(* The catalog from the empty database, one call at a time.                *)
(***************************************************************************)
Titles == {1, 2}
GenreLists == {<<>>, <<(<<2>>)>>, <<(<<2>>), (<<2>>)>>, <<(<<2>>), (<<1, 2>>)>>}
BookModels ==
    [first_name : {"A"}, last_name : {"Smith", "Jones"}, avatar : {NoAvatar, 1},
     genres : GenreLists, title : Titles, price : {10}, pages : {100}]

NextCatalog ==
    \/ \E book \in BookModels : add_book(book)
    \/ \E b \in 1..MaxBookSeq : remove_book(b)
    \/ \E g \in {Nothing, Some(<<2>>), Some(<<1, 2>>)} :
           get_books_filtered(Nothing, Nothing, g, Nothing, Nothing)
    \/ \E b \in 1..MaxBookSeq : get_genres_by_book_id(b)

CatalogSpec == Init /\ [][NextCatalog]_vars

(***************************************************************************)
(* get_books_filtered over a catalog of three books of two authors, each   *)
(* book with any of two genres or none, under every combination of the     *)
(* filters, the empty str among them.                                      *)
(***************************************************************************)
ShelfAuthors ==
    {[id |-> 1, first_name |-> "A", last_name |-> "Smith", avatar |-> NoAvatar],
     [id |-> 2, first_name |-> "B", last_name |-> "Jones", avatar |-> NoAvatar]}
ShelfGenres == {[id |-> 1, name |-> <<1>>], [id |-> 2, name |-> <<2>>]}
ShelfBooks ==
    {[id |-> 1, title |-> 1, price |-> 10, pages |-> 100, author_id |-> 1],
     [id |-> 2, title |-> 2, price |-> 20, pages |-> 100, author_id |-> 1],
     [id |-> 3, title |-> 3, price |-> 20, pages |-> 100, author_id |-> 2]}

InitFilter ==
    /\ authors = ShelfAuthors
    /\ genres = ShelfGenres
    /\ books = ShelfBooks
    /\ book_genres \in SUBSET [book_id : {1, 2, 3}, genre_id : {1, 2}]
    /\ seq = [authors |-> 3, genres |-> 3, books |-> 4]
    /\ bookings = EmptyBag
    /\ now = 0
    /\ ret = NoRet
    /\ calls = [p \in Procs |-> NoCall]

NextFilter ==
    \E min_price \in {Nothing, Some(20)}, max_price \in {Nothing, Some(10)},
       genre_name \in {Nothing, Some(NoGenre), Some(<<1>>), Some(<<2>>)},
       first_name \in {Nothing, Some(NoName), Some("A")},
       last_name \in {Nothing, Some(NoName), Some("Smith"), Some("Jones")} :
        get_books_filtered(min_price, max_price, genre_name, first_name, last_name)

FilterSpec == InitFilter /\ [][NextFilter]_vars

(***************************************************************************)
(* add_booking run by several request handlers at once over the stocked    *)
(* catalog.  Handler p books for subject p.  The statements of a call are  *)
(* its steps: the sweep, the SELECT COUNT, the INSERT (or the refusal).    *)
(***************************************************************************)
InFlight == {p \in Procs : calls[p].pc # "idle"}

\* add_booking entered: both instants truncated
ab_begin(p, book_id, start_date, end_date) ==
    /\ calls[p].pc = "idle"
    /\ BagCardinality(bookings) + Cardinality(InFlight) < MaxBookings
    /\ calls' = [calls EXCEPT ![p] =
                    [pc |-> "sweep", row |-> BookingRow(p, book_id, start_date, end_date)]]
    /\ UNCHANGED <<catalog, bookings, now, ret>>

\* _is_available_bookings: self._checking_booking_date()
ab_sweep(p) ==
    /\ calls[p].pc = "sweep"
    /\ bookings' = SweptLedger(bookings, now)
    /\ calls' = [calls EXCEPT ![p] =
                    [pc |-> "select", row |-> calls[p].row,
                     swept |-> SweptCount(bookings, now)]]
    /\ UNCHANGED <<catalog, now, ret>>

\* _is_available_bookings: the SELECT COUNT and count == 0
ab_select(p) ==
    /\ calls[p].pc = "select"
    /\ calls' = [calls EXCEPT ![p] =
                    [pc |-> "insert", row |-> calls[p].row, swept |-> calls[p].swept,
                     available |-> ConflictCount(bookings, calls[p].row.book_id,
                                                 calls[p].row.start_date) = 0]]
    /\ UNCHANGED <<catalog, bookings, now, ret>>

\* add_booking: the INSERT when the check said available, else the refusal
ab_insert(p) ==
    /\ calls[p].pc = "insert"
    /\ bookings' = IF calls[p].available
                   THEN InsertBooking(bookings, books, calls[p].row)
                   ELSE bookings
    /\ ret' = [op |-> "add_booking",
               out |-> IF ~calls[p].available THEN "conflict"
                       ELSE IF BookExists(books, calls[p].row.book_id) THEN "booked"
                       ELSE "error",
               swept |-> calls[p].swept]
    /\ calls' = [calls EXCEPT ![p] = NoCall]
    /\ UNCHANGED <<catalog, now>>

NextConc ==
    \/ \E p \in Procs, b \in StockedBookIds, s \in Instants, e \in Instants :
           ab_begin(p, b, s, e)
    \/ \E p \in Procs : ab_sweep(p)
    \/ \E p \in Procs : ab_select(p)
    \/ \E p \in Procs : ab_insert(p)
    \/ Tick

ConcSpec == InitStocked /\ [][NextConc]_vars

(***************************************************************************)
(* add_book run by several request handlers at once from the empty         *)
(* database.  The statements of a call are its steps: the author SELECT,   *)
(* the author INSERT, for each name of the genre list the genre SELECT and *)
(* the genre INSERT, the book INSERT, one book_genres INSERT per genre id. *)
(* A statement that raises ends the call with the error printed; what the  *)
(* earlier statements stored stays.                                        *)
(***************************************************************************)
\* where a call goes once the author is resolved or a genre name is done
AfterGenre(names) == IF names = <<>> THEN "book_insert" ELSE "genre_select"

\* a call that ended: what it printed, the book id it drew (0: none drawn)
BookRet(out, book_id, title) ==
    [op |-> "add_book", out |-> out, swept |-> 0, book_id |-> book_id, title |-> title]

\* add_book entered
book_begin(p, book) ==
    /\ calls[p].pc = "idle"
    /\ seq.books + Cardinality(InFlight) <= MaxBookSeq
    /\ calls' = [calls EXCEPT ![p] = [pc |-> "author_select", book |-> book]]
    /\ UNCHANGED <<catalog, bookings, now, ret>>

\* SELECT id FROM authors WHERE first_name = %s AND last_name = %s; fetchone
book_author_select(p) ==
    /\ calls[p].pc = "author_select"
    /\ LET book == calls[p].book
           found == AuthorIds(authors, book.first_name, book.last_name)
       IN IF found = {}
          THEN calls' = [calls EXCEPT ![p] = [pc |-> "author_insert", book |-> book]]
          ELSE \E id \in found :
                  calls' = [calls EXCEPT ![p] =
                               [pc |-> AfterGenre(book.genres), book |-> book,
                                author_id |-> id, names |-> book.genres,
                                genre_ids |-> <<>>]]
    /\ UNCHANGED <<catalog, bookings, now, ret>>

\* INSERT INTO authors ... RETURNING id: no constraint on the names can refuse it
book_author_insert(p) ==
    /\ calls[p].pc = "author_insert"
    /\ LET book == calls[p].book IN
       /\ authors' = authors \cup {[id |-> seq.authors, first_name |-> book.first_name,
                                    last_name |-> book.last_name, avatar |-> book.avatar]}
       /\ seq' = [seq EXCEPT !.authors = seq.authors + 1]
       /\ calls' = [calls EXCEPT ![p] =
                       [pc |-> AfterGenre(book.genres), book |-> book,
                        author_id |-> seq.authors, names |-> book.genres,
                        genre_ids |-> <<>>]]
    /\ UNCHANGED <<genres, books, book_genres, bookings, now, ret>>

\* SELECT id FROM genres WHERE name = %s, for the next name of the list
book_genre_select(p) ==
    /\ calls[p].pc = "genre_select"
    /\ LET c == calls[p]
           found == GenreIds(genres, Head(c.names))
       IN calls' = [calls EXCEPT ![p] =
                       IF found = {}
                       THEN [c EXCEPT !.pc = "genre_insert"]
                       ELSE [c EXCEPT !.pc = AfterGenre(Tail(c.names)),
                                      !.names = Tail(c.names),
                                      !.genre_ids = Append(c.genre_ids,
                                                           CHOOSE i \in found : TRUE)]]
    /\ UNCHANGED <<catalog, bookings, now, ret>>

\* INSERT INTO genres (name) ... RETURNING id: name is UNIQUE, and the id is
\* drawn from the sequence before the constraint is tested
book_genre_insert(p) ==
    /\ calls[p].pc = "genre_insert"
    /\ LET c == calls[p]
           name == Head(c.names)
       IN /\ seq' = [seq EXCEPT !.genres = seq.genres + 1]
          /\ IF GenreIds(genres, name) # {}
             THEN /\ genres' = genres
                  /\ calls' = [calls EXCEPT ![p] = NoCall]
                  /\ ret' = BookRet("error", 0, c.book.title)
             ELSE /\ genres' = genres \cup {[id |-> seq.genres, name |-> name]}
                  /\ calls' = [calls EXCEPT ![p] =
                                  [c EXCEPT !.pc = AfterGenre(Tail(c.names)),
                                            !.names = Tail(c.names),
                                            !.genre_ids = Append(c.genre_ids, seq.genres)]]
                  /\ ret' = ret
    /\ UNCHANGED <<authors, books, book_genres, bookings, now>>

\* INSERT INTO books ... RETURNING id: title is UNIQUE, the id is drawn first
book_insert(p) ==
    /\ calls[p].pc = "book_insert"
    /\ LET c == calls[p] IN
       /\ seq' = [seq EXCEPT !.books = seq.books + 1]
       /\ IF TitleTaken(books, c.book.title)
          THEN /\ books' = books
               /\ calls' = [calls EXCEPT ![p] = NoCall]
               /\ ret' = BookRet("error", seq.books, c.book.title)
          ELSE /\ books' = books \cup {[id |-> seq.books, title |-> c.book.title,
                                        price |-> c.book.price, pages |-> c.book.pages,
                                        author_id |-> c.author_id]}
               /\ IF c.genre_ids = <<>>
                  THEN /\ calls' = [calls EXCEPT ![p] = NoCall]
                       /\ ret' = BookRet("added", seq.books, c.book.title)
                  ELSE /\ calls' = [calls EXCEPT ![p] =
                                       [pc |-> "join_insert", book |-> c.book,
                                        book_id |-> seq.books, genre_ids |-> c.genre_ids]]
                       /\ ret' = ret
    /\ UNCHANGED <<authors, genres, book_genres, bookings, now>>

\* INSERT INTO book_genres (book_id, genre_id): the pair is the primary key
book_join_insert(p) ==
    /\ calls[p].pc = "join_insert"
    /\ LET c == calls[p]
           row == [book_id |-> c.book_id, genre_id |-> Head(c.genre_ids)]
       IN IF row \in book_genres \/ ~BookExists(books, c.book_id)
          THEN /\ book_genres' = book_genres
               /\ calls' = [calls EXCEPT ![p] = NoCall]
               /\ ret' = BookRet("error", c.book_id, c.book.title)
          ELSE /\ book_genres' = book_genres \cup {row}
               /\ IF Tail(c.genre_ids) = <<>>
                  THEN /\ calls' = [calls EXCEPT ![p] = NoCall]
                       /\ ret' = BookRet("added", c.book_id, c.book.title)
                  ELSE /\ calls' = [calls EXCEPT ![p] =
                                       [c EXCEPT !.genre_ids = Tail(c.genre_ids)]]
                       /\ ret' = ret
    /\ UNCHANGED <<authors, genres, books, seq, bookings, now>>

\* the books the handlers add: one author, up to two genre names, two titles
ConcBookModels ==
    [first_name : {"A"}, last_name : {"Smith"}, avatar : {NoAvatar},
     genres : {<<>>, <<(<<1>>)>>, <<(<<2>>), (<<1>>)>>}, title : Titles, price : {10}, pages : {100}]

NextConcCatalog ==
    \/ \E p \in Procs, book \in ConcBookModels : book_begin(p, book)
    \/ \E p \in Procs : book_author_select(p)
    \/ \E p \in Procs : book_author_insert(p)
    \/ \E p \in Procs : book_genre_select(p)
    \/ \E p \in Procs : book_genre_insert(p)
    \/ \E p \in Procs : book_insert(p)
    \/ \E p \in Procs : book_join_insert(p)

ConcCatalogSpec == Init /\ [][NextConcCatalog]_vars

(***************************************************************************)
(* The catalog and the ledger together, one call at a time: books added to *)
(* the stocked catalog, books booked from instant 0 on by one subject,     *)
(* cancelled, swept as the clock moves, and removed.                       *)
(***************************************************************************)
\* the books added: a stocked title or a new one, the stocked genre
LibraryBookModels ==
    [first_name : {"A"}, last_name : {"Smith"}, avatar : {NoAvatar},
     genres : {<<(<<1>>)>>}, title : {1, 3}, price : {10}, pages : {100}]

NextLibrary ==
    \/ \E book \in LibraryBookModels : add_book(book)
    \/ \E b \in BookIds : remove_book(b)
    \/ \E b \in BookIds, e \in Instants : add_booking(1, b, 0, e)
    \/ \E b \in BookIds : cancel_booking(1, b)
    \/ _checking_booking_date
    \/ Tick

LibrarySpec == InitStocked /\ [][NextLibrary]_vars

(***************************************************************************)
(* The claims.                                                             *)
(***************************************************************************)
Rows == DOMAIN bookings

\* C1 (as claimed): calls made one at a time, each with start < end and none
\* expired, never leave two bookings a, b of one book with
\* a.start < b.start < a.end.
C1_NoOverlap ==
    \A a \in Rows, b \in Rows :
        ( /\ a.book_id = b.book_id
          /\ a.start_date < a.end_date /\ b.start_date < b.end_date
          /\ a.end_date >= now /\ b.end_date >= now )
        => ~(a.start_date < b.start_date /\ b.start_date < a.end_date)

\* C2 (as claimed): whenever a call of add_booking inserts its row, no stored
\* booking of that book has existing.start < candidate.start < existing.end.
C2_CheckAndInsertAtomic ==
    [][\A p \in Procs :
        ( /\ ab_insert(p) /\ ret'.out = "booked"
          /\ calls[p].row.start_date < calls[p].row.end_date )
        => ~\E r \in Rows :
               /\ r.book_id = calls[p].row.book_id
               /\ r.start_date < calls[p].row.start_date
               /\ calls[p].row.start_date < r.end_date]_vars

\* a step of add_booking(subject, book, s, e) for the subject and the book
\* of the row the call reports
AddBookingStep(s, e) ==
    /\ ret'.row.start_date = s - (s % Res)
    /\ ret'.row.end_date = e - (e % Res)
    /\ add_booking(ret'.row.user_id, ret'.row.book_id, s, e)

\* C3 (as claimed): add_booking(subject, book, start, end) is refused exactly
\* when a stored, non-expired booking of the book has
\* existing.start < start < existing.end, start being the instant passed in.
C3_RawStartRule ==
    [][ret'.op = "add_booking" =>
        \A s \in Instants, e \in Instants :
            AddBookingStep(s, e)
            => ( ret'.out = "conflict"
                 <=> \E r \in Rows :
                        /\ r.book_id = ret'.row.book_id /\ r.end_date >= now
                        /\ r.start_date < s /\ s < r.end_date )]_vars

\* every call stamps ret and only Tick leaves ret alone, so a step that ends
\* with add_booking's report and leaves the clock alone is a step of add_booking,
\* for the row it reports
AddBookingDone == ret'.op = "add_booking" /\ now' = now

\* C3 (amended): add_booking(subject, book, start, end) is refused exactly when
\* a stored, non-expired booking of the book has
\* existing.start < start' < existing.end, start' being start truncated to the
\* whole second; unless refused, a call that names a book stores its row.  The
\* end passed in, the subject and the bookings of other books play no part.
C3_StartOnlyRule ==
    [][AddBookingDone =>
        LET row == ret'.row
            conflict == \E r \in Rows :
                           /\ r.book_id = row.book_id /\ r.end_date >= now
                           /\ r.start_date < row.start_date
                           /\ row.start_date < r.end_date
            before == IF row \in Rows /\ row.end_date >= now THEN bookings[row] ELSE 0
            after == IF row \in DOMAIN bookings' THEN bookings'[row] ELSE 0
        IN /\ row.start_date % Res = 0
           /\ ret'.out = "conflict" <=> conflict
           /\ conflict => after = before
           /\ (~conflict /\ row.book_id \in {x.id : x \in books})
                 => ret'.out = "booked" /\ after = before + 1]_vars

\* C3 witness: a call was refused because its start lies inside a booking that
\* another subject holds on the book.
C3_Refused ==
    /\ ret.op = "add_booking"
    /\ ret.out = "conflict"
    /\ \E r \in Rows :
          /\ r.book_id = ret.row.book_id
          /\ r.user_id # ret.row.user_id
          /\ r.start_date < ret.row.start_date
          /\ ret.row.start_date < r.end_date

\* C4 (as claimed): every stored booking has start < end.
C4_StoredIntervalsValid == \A r \in Rows : r.start_date < r.end_date

\* C5: the sweep run at instant now deletes every booking with end < now and
\* leaves every booking with end >= now stored as it was.
C5_SweepEffect ==
    [][_checking_booking_date
        => /\ DOMAIN bookings' \subseteq Rows
           /\ \A r \in Rows :
                IF r.end_date < now
                THEN r \notin DOMAIN bookings'
                ELSE r \in DOMAIN bookings' /\ bookings'[r] = bookings[r]]_vars

\* C5 witness: a sweep deleted a booking and kept one whose end is now.
C5_SweptAndKept ==
    /\ ret.op = "_checking_booking_date"
    /\ ret.swept >= 1
    /\ \E r \in Rows : r.end_date = now

\* C6: add_booking and get_active_bookings sweep before they read: a call of
\* add_booking is not refused when every booking its start falls into has
\* end < now, and after get_active_bookings neither the listing nor the ledger
\* holds a booking with end < now (now as read when the call began).
C6_SweepBeforeRead ==
    [][/\ ( /\ AddBookingDone
            /\ \A r \in Rows :
                  ( /\ r.book_id = ret'.row.book_id
                    /\ r.start_date < ret'.row.start_date
                    /\ ret'.row.start_date < r.end_date )
                  => r.end_date < now )
          => ret'.out # "conflict"
       /\ get_active_bookings
          => /\ \A x \in DOMAIN ret'.out : x[3] >= now
             /\ \A r \in DOMAIN bookings' : r.end_date >= now]_vars

\* C6 witness: a call was accepted although an expired booking held its start.
C6_StaleSwept ==
    /\ ret.op = "add_booking"
    /\ ret.out = "booked"
    /\ ret.stale >= 1

\* C7 (as claimed): after an add_book that failed, the book of the attempt is
\* not in the catalog and get_books_filtered does not return it.
C7_FailedAddLeavesNoBook ==
    (ret.op = "add_book" /\ ret.out = "error")
    => /\ ~\E b \in books : b.id = ret.book_id
       /\ ~\E x \in AllBooks(books, book_genres, genres, authors) : x.id = ret.book_id

\* C8 (as claimed): remove_book of an existing book deletes the book row and
\* its book_genres rows and leaves every booking as it was, also when bookings
\* reference the book.
C8_RemoveLeavesOrphans ==
    [][\A b \in BookIds :
        (remove_book(b) /\ \E x \in books : x.id = b)
        => /\ ~\E x \in books' : x.id = b
           /\ ~\E j \in book_genres' : j.book_id = b
           /\ bookings' = bookings]_vars

\* C8 (amended): remove_book of an existing book that no booking references
\* deletes the book row and its book_genres rows and nothing else; when a
\* booking references the book the foreign key refuses the delete, and the book,
\* its book_genres rows and every booking stay as they were: no booking is left
\* pointing at a deleted book.
C8_RemoveUnlessBooked ==
    [][\A b \in BookIds :
        (remove_book(b) /\ \E x \in books : x.id = b)
        => /\ bookings' = bookings
           /\ IF \E r \in Rows : r.book_id = b
              THEN /\ books' = books
                   /\ book_genres' = book_genres
                   /\ ret'.out = "error"
              ELSE /\ books' = {x \in books : x.id # b}
                   /\ book_genres' = {j \in book_genres : j.book_id # b}
                   /\ ret'.out = "removed"]_vars

\* C8 witness: one book has been removed, and the removal of another, which is
\* booked, was refused.
C8_RemovedOneRefusedOther ==
    /\ ret.op = "remove_book"
    /\ ret.out = "error"
    /\ \E b \in books : b.id = ret.book_id
    /\ \E r \in Rows : r.book_id = ret.book_id
    /\ \E i \in StockedBookIds : ~\E b \in books : b.id = i

\* C9: cancel_booking(subject, book) deletes every booking of that subject and
\* that book and leaves every other booking as it was.
C9_CancelFrame ==
    [][\A u \in Users, b \in BookIds :
        (ret'.op = "cancel_booking" /\ cancel_booking(u, b))
        => /\ DOMAIN bookings' \subseteq Rows
           /\ \A r \in Rows :
                IF r.user_id = u /\ r.book_id = b
                THEN r \notin DOMAIN bookings'
                ELSE r \in DOMAIN bookings' /\ bookings'[r] = bookings[r]]_vars

\* C9 witness: a cancel deleted a booking and another booking is still stored.
C9_CancelledOneKeptOne ==
    /\ ret.op = "cancel_booking"
    /\ ret.rowcount >= 1
    /\ Rows # {}

\* C10 (as claimed): the second of two cancel_booking calls with the same
\* subject and book leaves the ledger as it is and its report differs from the
\* report of the first call, which deleted a booking.
C10_SecondCancelSignalsNoOp ==
    [][\A u \in Users, b \in BookIds :
        ( /\ ret.op = "cancel_booking" /\ ret.user_id = u /\ ret.book_id = b
          /\ ret.rowcount >= 1
          /\ cancel_booking(u, b) )
        => bookings' = bookings /\ ret'.out # ret.out]_vars

\* C11: no two books ever have the same title, also when add_book calls
\* interleave; the book INSERT of a call whose title is stored already ends the
\* call with the error and adds neither a book row nor a book_genres row.
C11_TitleUnique ==
    /\ [](\A a \in books, b \in books : a.title = b.title => a = b)
    /\ [][\A p \in Procs :
            (book_insert(p) /\ \E b \in books : b.title = calls[p].book.title)
            => /\ ret'.op = "add_book" /\ ret'.out = "error"
               /\ books' = books
               /\ book_genres' = book_genres
               /\ calls'[p] = NoCall]_vars

\* C11 witness: a call was refused at its book INSERT because another book
\* holds its title.
C11_DuplicateRefused ==
    /\ ret.op = "add_book"
    /\ ret.out = "error"
    /\ ret.book_id # 0
    /\ ~\E b \in books : b.id = ret.book_id
    /\ \E b \in books : b.title = ret.title

\* C12: add_book calls run one after the other: a call whose (first_name,
\* last_name) is stored already inserts no author and leaves every author row,
\* avatar included, as it was, the book it adds references the stored author of
\* that name, and no name is ever held by two author rows.
C12_AuthorResolvedOnce ==
    /\ [](\A a \in authors, b \in authors :
            (a.first_name = b.first_name /\ a.last_name = b.last_name) => a = b)
    /\ [][\A book \in BookModels :
            ( /\ ret'.op = "add_book" /\ ret'.title = book.title
              /\ ret'.avatar = book.avatar
              /\ add_book(book)
              /\ \E a \in authors : a.first_name = book.first_name
                                    /\ a.last_name = book.last_name )
            => /\ authors' = authors
               /\ \A b \in books' \ books :
                     \E a \in authors : /\ a.id = b.author_id
                                        /\ a.first_name = book.first_name
                                        /\ a.last_name = book.last_name]_vars

\* C12 witness: a second book was added for a stored author by a call that
\* supplied another avatar than the stored one.
C12_SecondBookOtherAvatar ==
    /\ ret.op = "add_book"
    /\ ret.out = "added"
    /\ \E b \in books : b.id # ret.book_id /\ b.author_id = ret.author_id
    /\ \E a \in authors : a.id = ret.author_id /\ a.avatar # ret.avatar

\* the book of id i is returned by the call that left ret
Returned(i) == \E x \in ret'.out : x.id = i

\* C13 (as claimed): get_books_filtered returns exactly the books that have a
\* book_genres row and meet every filter that is passed (not None), each once
\* under its id with its own fields.
C13_EveryPassedFilter ==
    [][ret'.op = "get_books_filtered" =>
        LET min_price == ret'.args[1]
            max_price == ret'.args[2]
            genre_name == ret'.args[3]
            first_name == ret'.args[4]
            last_name == ret'.args[5]
        IN \A b \in books :
             Returned(b.id) <=>
               /\ \E j \in book_genres : j.book_id = b.id
               /\ min_price # <<>> => b.price >= min_price[1]
               /\ max_price # <<>> => b.price <= max_price[1]
               /\ first_name # <<>> =>
                    \E a \in authors : a.id = b.author_id /\ a.first_name = first_name[1]
               /\ last_name # <<>> =>
                    \E a \in authors : a.id = b.author_id /\ a.last_name = last_name[1]
               /\ genre_name # <<>> =>
                    \E j \in book_genres, g \in genres :
                       j.book_id = b.id /\ g.id = j.genre_id /\ g.name = genre_name[1]]_vars

\* C13 (amended): get_books_filtered returns exactly the books that have a
\* book_genres row and meet every filter that is supplied, a price filter being
\* supplied when it is not None and a name filter when it is neither None nor
\* the empty str; each such book is returned once under its id with its own
\* fields, and a book with no book_genres row is never returned.
C13_FilterConjunction ==
    [][ret'.op = "get_books_filtered" =>
        LET min_price == ret'.args[1]
            max_price == ret'.args[2]
            genre_name == ret'.args[3]
            first_name == ret'.args[4]
            last_name == ret'.args[5]
        IN /\ \A b \in books :
                Returned(b.id) <=>
                  /\ \E j \in book_genres : j.book_id = b.id
                  /\ min_price # <<>> => b.price >= min_price[1]
                  /\ max_price # <<>> => b.price <= max_price[1]
                  /\ (first_name # <<>> /\ first_name # <<"">>) =>
                       \E a \in authors : a.id = b.author_id /\ a.first_name = first_name[1]
                  /\ (last_name # <<>> /\ last_name # <<"">>) =>
                       \E a \in authors : a.id = b.author_id /\ a.last_name = last_name[1]
                  /\ (genre_name # <<>> /\ genre_name # << <<>> >>) =>
                       \E j \in book_genres, g \in genres :
                          j.book_id = b.id /\ g.id = j.genre_id /\ g.name = genre_name[1]
           /\ \A x \in ret'.out, y \in ret'.out : x.id = y.id => x = y
           /\ \A x \in ret'.out :
                \E b \in books, a \in authors :
                   /\ b.id = x.id /\ a.id = b.author_id
                   /\ x.title = b.title /\ x.price = b.price /\ x.pages = b.pages
                   /\ x.first_name = a.first_name /\ x.last_name = a.last_name]_vars

\* C13 witness: a call with a price filter, a genre filter and an author filter
\* returned a book, left out a book of that genre and author for its price
\* alone, and left out a book of that price that has no book_genres row.
C13_FilteredOutUnjoined ==
    /\ ret.op = "get_books_filtered"
    /\ ret.args[1] # <<>> /\ ret.args[3] = << <<2>> >> /\ ret.args[5] = <<"Smith">>
    /\ ret.out # {}
    /\ \E b \in books :
          /\ b.price < ret.args[1][1]
          /\ b.author_id = 1
          /\ [book_id |-> b.id, genre_id |-> 2] \in book_genres
    /\ \E b \in books :
          /\ b.price >= ret.args[1][1]
          /\ ~\E j \in book_genres : j.book_id = b.id

\* get_books_filtered() with every filter left at None has just returned
NoFilterDone ==
    /\ ret'.op = "get_books_filtered"
    /\ ret'.args = <<(<<>>), (<<>>), (<<>>), (<<>>), (<<>>)>>

\* C14 (as claimed): get_books_filtered() called right after an add_book that
\* succeeded returns the book that call added, whatever its genre list.
C14_AddedBookListed ==
    [][(ret.op = "add_book" /\ ret.out = "added" /\ NoFilterDone)
        => Returned(ret.book_id)]_vars

\* C14 (amended): get_books_filtered() with no filter returns exactly the
\* stored books that have at least one book_genres row: a book added with a
\* non-empty genre list and not removed is returned, a book added with an empty
\* genre list is stored and is not returned.
C14_JoinedCatalog ==
    [][NoFilterDone
        => /\ \A b \in books : Returned(b.id) <=> \E j \in book_genres : j.book_id = b.id
           /\ \A x \in ret'.out : \E b \in books : b.id = x.id]_vars

\* C14 witness: get_books_filtered() returned a book while a book with no
\* book_genres row is stored.
C14_ListedAndUnlisted ==
    /\ ret.op = "get_books_filtered"
    /\ ret.args = <<(<<>>), (<<>>), (<<>>), (<<>>), (<<>>)>>
    /\ ret.out # {}
    /\ \E b \in books : ~\E j \in book_genres : j.book_id = b.id

\* s lists exactly the names of the set N, each once, in lexicographic order
ListsInOrder(s, N) ==
    /\ {s[i] : i \in 1..Len(s)} = N
    /\ \A i \in 1..Len(s), j \in 1..Len(s) : i < j => NameLess(s[i], s[j])

\* C15: once add_book has succeeded for a list of distinct genre names,
\* get_genres_by_book_id of the book returns exactly those names, each once, in
\* lexicographic order: it does so on the catalog the call leaves, no later
\* add_book or remove_book of another book changes what it returns, and every
\* call returns the names joined to the book in that order.
C15_GenreRoundTrip ==
    [][/\ \A book \in BookModels :
            ( /\ ret'.op = "add_book" /\ ret'.out = "added"
              /\ ret'.title = book.title /\ ret'.avatar = book.avatar
              /\ add_book(book)
              /\ \A i \in 1..Len(book.genres), j \in 1..Len(book.genres) :
                    i # j => book.genres[i] # book.genres[j] )
            => LET out == GenresOfBook(book_genres', genres', ret'.book_id)
               IN /\ Len(out) = Len(book.genres)
                  /\ ListsInOrder(out, {book.genres[i] : i \in 1..Len(book.genres)})
       /\ \A b \in books \cap books' :
            GenresOfBook(book_genres', genres', b.id) = GenresOfBook(book_genres, genres, b.id)
       /\ \A b \in 1..MaxBookSeq :
            get_genres_by_book_id(b)
            => ListsInOrder(ret'.out,
                   {g.name : g \in {x \in genres :
                       [book_id |-> b, genre_id |-> x.id] \in book_genres}})]_vars

\* C15 witness: get_genres_by_book_id returned two names in lexicographic
\* order for a book whose genres were stored in the other order, while another
\* book is in the catalog.
C15_TwoNamesSorted ==
    /\ ret.op = "get_genres_by_book_id"
    /\ ret.out = <<(<<1, 2>>), (<<2>>)>>
    /\ \E g \in genres, h \in genres : g.name = <<2>> /\ h.name = <<1, 2>> /\ g.id < h.id
    /\ \E b \in books : b.id # ret.book_id

\* C16 (as claimed): at a fixed now, a second sweep changes nothing, and
\* add_booking of an interval whose end, as passed, is >= now, followed by a
\* sweep, leaves the ledger and gives the outcome that a sweep followed by
\* that add_booking does.
C16_RawEndCommutes ==
    [][/\ _checking_booking_date => SweptLedger(bookings', now) = bookings'
       /\ ret'.op = "add_booking" =>
            \A s \in Instants, e \in Instants :
                (AddBookingStep(s, e) /\ e >= now)
                => /\ SweptLedger(bookings', now)
                        = AddBookingLedger(SweptLedger(bookings, now), books, now, ret'.row)
                   /\ ret'.out
                        = AddBookingOut(SweptLedger(bookings, now), books, now, ret'.row)]_vars

\* C16 (amended): at a fixed now, a second sweep changes nothing, and
\* add_booking of an interval whose end, truncated to the whole second, is
\* >= now, followed by a sweep, leaves the ledger and gives the outcome that a
\* sweep followed by that add_booking does.
C16_SweepCommutes ==
    [][/\ _checking_booking_date => SweptLedger(bookings', now) = bookings'
       /\ (AddBookingDone /\ ret'.row.end_date >= now)
          => /\ SweptLedger(bookings', now)
                  = AddBookingLedger(SweptLedger(bookings, now), books, now, ret'.row)
             /\ ret'.out
                  = AddBookingOut(SweptLedger(bookings, now), books, now, ret'.row)]_vars

\* C16 witness: an add_booking whose own sweep deleted a booking stored an
\* interval that ends at now, which a sweep at now keeps.
C16_SweptThenStored ==
    /\ ret.op = "add_booking"
    /\ ret.out = "booked"
    /\ ret.swept >= 1
    /\ ret.row.end_date = now
    /\ ret.row \in Rows

\* only cancel_booking ends with its report, and it alone changes the ledger
\* without moving the clock or sweeping, so such a step is a step of
\* cancel_booking for the subject and the book it reports
CancelDone == ret'.op = "cancel_booking" /\ now' = now

\* C17: cancel_booking(s, b) leaves the bookings of every other book as they
\* were, and a request on b whose start was taken only by bookings of s when
\* the cancel ran is accepted when it is made after the cancel, whatever is
\* booked on other books.
C17_CancelReleases ==
    [][/\ CancelDone
          => \A r \in Rows :
                r.book_id # ret'.book_id
                => r \in DOMAIN bookings' /\ bookings'[r] = bookings[r]
       /\ ( /\ AddBookingDone
            /\ ret.op = "cancel_booking"
            /\ ret'.row.book_id = ret.book_id
            /\ ret'.row.start_date \in ret.freed )
          => /\ ret'.out = "booked"
             /\ ret'.row \in DOMAIN bookings']_vars

\* C17 witness: a cancel freed a start that only its subject held on the book,
\* while a booking of another book is stored.
C17_FreedWhileOtherBooked ==
    /\ ret.op = "cancel_booking"
    /\ ret.freed # {}
    /\ \E r \in Rows : r.book_id # ret.book_id

\* the add_book calls in flight name titles that differ from one another and
\* from every stored title
FreshTitles ==
    /\ \A p \in Procs, q \in Procs :
          (p # q /\ calls[p].pc # "idle" /\ calls[q].pc # "idle")
          => calls[p].book.title # calls[q].book.title
    /\ \A p \in Procs, b \in books :
          (calls[p].pc \in {"author_select", "author_insert", "genre_select",
                            "genre_insert", "book_insert"})
          => calls[p].book.title # b.title

\* C18 (as claimed): in every state reached by interleaved add_book calls of
\* different titles, at most one author row holds a given (first_name,
\* last_name).
C18_OneAuthorPerName ==
    FreshTitles
    => \A a \in authors, b \in authors :
          (a.first_name = b.first_name /\ a.last_name = b.last_name) => a.id = b.id

\* C19 (as claimed): no add_book call ends with an error at its genre INSERT
\* while the calls in flight have different titles: a call whose lookup did not
\* find the name goes on to its next statement, with the genre resolved to the
\* one row of that name.
C19_GenreInsertNeverFails ==
    [][\A p \in Procs :
        (FreshTitles /\ book_genre_insert(p))
        => /\ calls'[p].pc # "idle"
           /\ \E g \in genres' :
                 /\ g.name = Head(calls[p].names)
                 /\ g.id = calls'[p].genre_ids[Len(calls'[p].genre_ids)]]_vars

\* C20: every stored booking names a book that is in the catalog, whatever
\* add_book, remove_book, add_booking, cancel_booking and the sweep have done:
\* add_booking for an id that is no book stores nothing, and remove_book of a
\* book that has a booking removes neither the book, nor its book_genres rows,
\* nor a booking.
C20_BookingsReferenceBooks ==
    /\ [](\A r \in Rows : \E b \in books : b.id = r.book_id)
    /\ [][/\ (AddBookingDone /\ ~\E b \in books : b.id = ret'.row.book_id)
             => /\ ret'.out # "booked"
                /\ ret'.row \notin DOMAIN bookings'
                /\ \A r \in DOMAIN bookings' : r \in Rows /\ bookings'[r] = bookings[r]
          /\ \A b \in BookIds :
                (remove_book(b) /\ \E r \in Rows : r.book_id = b)
                => /\ books' = books
                   /\ book_genres' = book_genres
                   /\ bookings' = bookings]_vars

\* C20 witness: a book was added to the stocked catalog and booked, and its
\* removal was refused: the book and its booking are stored.
C20_RemovalOfAddedBookRefused ==
    /\ ret.op = "remove_book"
    /\ ret.out = "error"
    /\ ~\E i \in StockedBookIds : ret.book_id = i
    /\ \E b \in books : b.id = ret.book_id
    /\ \E r \in Rows : r.book_id = ret.book_id
====
